---------------------------- MODULE Spec2Model ----------------------------
(***************************************************************************)
(* Address parsing, normalisation, variant generation and lookup           *)
(* resolution of the Berkeley housing pipeline                             *)
(* (src/modules/address_normalizer.py, src/modules/geocoder.py).           *)
(*                                                                         *)
(* A Python str is a sequence of one-character strings.  An optional value *)
(* (None or a value) is a sequence of length 0 or 1.  Coordinates are      *)
(* integers in hundredths of a degree (37.84 is 3784).                     *)
(***************************************************************************)
EXTENDS Integers, Sequences, FiniteSets, TLC

VARIABLES
  lookup,   \* the rows of the lookup table file, in file order
  call      \* the call the caller has just made: its function, arguments and
            \* outcome; fn is "none" between calls

vars == <<lookup, call>>

---------------------------------------------------------------------------
(* Characters and the str methods the code uses. *)

UpperChars == <<"A", "B", "C", "D", "E", "F", "G", "H", "I", "J", "K", "L", "M", "N", "O", "P", "Q", "R", "S", "T", "U", "V", "W", "X", "Y", "Z">>

LowerChars == <<"a", "b", "c", "d", "e", "f", "g", "h", "i", "j", "k", "l", "m", "n", "o", "p", "q", "r", "s", "t", "u", "v", "w", "x", "y", "z">>

DigitChars == <<"0", "1", "2", "3", "4", "5", "6", "7", "8", "9">>

Range(f) == { f[i] : i \in DOMAIN f }

Min(S) == CHOOSE x \in S : \A y \in S : x <= y

Max(S) == CHOOSE x \in S : \A y \in S : x >= y

UpperSet == Range(UpperChars)

LowerSet == Range(LowerChars)

DigitSet == Range(DigitChars)

IsUpper(c) == c \in UpperSet

IsLower(c) == c \in LowerSet

IsAlpha(c) == IsUpper(c) \/ IsLower(c)

IsDigit(c) == c \in DigitSet

IsSpace(c) == c = " "

\* the upper-case letter of each lower-case letter, and the reverse
UpperOf == [c \in LowerSet |-> UpperChars[CHOOSE i \in DOMAIN LowerChars : LowerChars[i] = c]]

LowerOf == [c \in UpperSet |-> LowerChars[CHOOSE i \in DOMAIN UpperChars : UpperChars[i] = c]]

UpperChar(c) == IF IsLower(c) THEN UpperOf[c] ELSE c

LowerChar(c) == IF IsUpper(c) THEN LowerOf[c] ELSE c

\* str.upper()
Upper(s) == [i \in 1..Len(s) |-> UpperChar(s[i])]

\* str.lower()
Lower(s) == [i \in 1..Len(s) |-> LowerChar(s[i])]

\* str.title(): a letter that follows a letter is lowercased, any other
\* letter is uppercased ("5th".title() is "5Th").
Title(s) ==
  [i \in 1..Len(s) |->
     IF i > 1 /\ IsAlpha(s[i-1]) THEN LowerChar(s[i]) ELSE UpperChar(s[i])]

\* F applied to the value of v, with v evaluated once
With(v, F(_)) == CHOOSE r \in { F(x) : x \in {v} } : TRUE

\* the characters of t from the first to the last that is no whitespace
StripValue(t) ==
  With({ i \in 1..Len(t) : ~IsSpace(t[i]) }, LAMBDA keep :
    IF keep = {} THEN <<>> ELSE SubSeq(t, Min(keep), Max(keep)))

\* str.strip()
Strip(s) == With(s, LAMBDA t : StripValue(t))

\* the run of non-whitespace characters of t that begins at b
TokenAt(t, b) ==
  SubSeq(t, b, Min({ j \in b..Len(t) : j = Len(t) \/ IsSpace(t[j + 1]) }))

\* the runs of t that begin at the positions starts, in order
TokensFrom(t, starts) ==
  [k \in 1..Cardinality(starts) |->
     TokenAt(t, CHOOSE b \in starts : Cardinality({ c \in starts : c <= b }) = k)]

\* the positions of t where a run of non-whitespace characters begins
TokenStarts(t) ==
  { i \in 1..Len(t) : ~IsSpace(t[i]) /\ (i = 1 \/ IsSpace(t[i - 1])) }

\* str.split(): the maximal runs of non-whitespace characters, in order.
Split(s) ==
  With(s, LAMBDA t :
    With(TokenStarts(t), LAMBDA starts : TokensFrom(t, starts)))

\* ' '.join(parts)
RECURSIVE Join(_)
Join(parts) ==
  IF parts = <<>> THEN <<>>
  ELSE IF Len(parts) = 1 THEN parts[1]
  ELSE parts[1] \o <<" ">> \o Join(Tail(parts))

\* dict lookup over a sequence of <<key, value>> pairs; a later pair with
\* the same key overwrites an earlier one.
HasKey(d, k) == \E i \in DOMAIN d : d[i][1] = k

Get(d, k) == d[Max({ i \in DOMAIN d : d[i][1] = k })][2]

\* the startswith test of a literal at position i, ignoring case
MatchesAt(s, i, lit) ==
  /\ i + Len(lit) - 1 <= Len(s)
  /\ \A j \in 1..Len(lit) : UpperChar(s[i + j - 1]) = lit[j]

---------------------------------------------------------------------------
(* src/modules/address_normalizer.py *)

NUMBERED_STREETS ==
  << <<<<"1", "S", "T">>, <<"F", "I", "R", "S", "T">>>>,
     <<<<"F", "I", "R", "S", "T">>, <<"1", "S", "T">>>>,
     <<<<"2", "N", "D">>, <<"S", "E", "C", "O", "N", "D">>>>,
     <<<<"S", "E", "C", "O", "N", "D">>, <<"2", "N", "D">>>>,
     <<<<"3", "R", "D">>, <<"T", "H", "I", "R", "D">>>>,
     <<<<"T", "H", "I", "R", "D">>, <<"3", "R", "D">>>>,
     <<<<"4", "T", "H">>, <<"F", "O", "U", "R", "T", "H">>>>,
     <<<<"F", "O", "U", "R", "T", "H">>, <<"4", "T", "H">>>>,
     <<<<"5", "T", "H">>, <<"F", "I", "F", "T", "H">>>>,
     <<<<"F", "I", "F", "T", "H">>, <<"5", "T", "H">>>>,
     <<<<"6", "T", "H">>, <<"S", "I", "X", "T", "H">>>>,
     <<<<"S", "I", "X", "T", "H">>, <<"6", "T", "H">>>>,
     <<<<"7", "T", "H">>, <<"S", "E", "V", "E", "N", "T", "H">>>>,
     <<<<"S", "E", "V", "E", "N", "T", "H">>, <<"7", "T", "H">>>>,
     <<<<"8", "T", "H">>, <<"E", "I", "G", "H", "T", "H">>>>,
     <<<<"E", "I", "G", "H", "T", "H">>, <<"8", "T", "H">>>>,
     <<<<"9", "T", "H">>, <<"N", "I", "N", "T", "H">>>>,
     <<<<"N", "I", "N", "T", "H">>, <<"9", "T", "H">>>>,
     <<<<"1", "0", "T", "H">>, <<"T", "E", "N", "T", "H">>>>,
     <<<<"T", "E", "N", "T", "H">>, <<"1", "0", "T", "H">>>>,
     <<<<"1", "1", "T", "H">>, <<"E", "L", "E", "V", "E", "N", "T", "H">>>>,
     <<<<"E", "L", "E", "V", "E", "N", "T", "H">>, <<"1", "1", "T", "H">>>>,
     <<<<"1", "2", "T", "H">>, <<"T", "W", "E", "L", "F", "T", "H">>>>,
     <<<<"T", "W", "E", "L", "F", "T", "H">>, <<"1", "2", "T", "H">>>> >>

STREET_TYPES ==
  << <<<<"S", "T">>, <<<<"S", "T">>, <<"S", "T", "R", "E", "E", "T">>, <<"S", "T", "R">>>> >>,
     <<<<"A", "V">>, <<<<"A", "V">>, <<"A", "V", "E">>, <<"A", "V", "E", "N", "U", "E">>>> >>,
     <<<<"W", "Y">>, <<<<"W", "Y">>, <<"W", "A", "Y">>>> >>,
     <<<<"B", "L">>, <<<<"B", "L">>, <<"B", "L", "V", "D">>, <<"B", "O", "U", "L", "E", "V", "A", "R", "D">>>> >>,
     <<<<"R", "D">>, <<<<"R", "D">>, <<"R", "O", "A", "D">>>> >>,
     <<<<"D", "R">>, <<<<"D", "R">>, <<"D", "R", "I", "V", "E">>>> >>,
     <<<<"L", "N">>, <<<<"L", "N">>, <<"L", "A", "N", "E">>>> >>,
     <<<<"P", "L">>, <<<<"P", "L">>, <<"P", "L", "A", "C", "E">>>> >>,
     <<<<"C", "T">>, <<<<"C", "T">>, <<"C", "O", "U", "R", "T">>, <<"C", "R", "T">>>> >>,
     <<<<"C", "R">>, <<<<"C", "R">>, <<"C", "I", "R">>, <<"C", "I", "R", "C", "L", "E">>>> >>,
     <<<<"T", "E", "R">>, <<<<"T", "E", "R">>, <<"T", "E", "R", "R">>, <<"T", "E", "R", "R", "A", "C", "E">>>> >>,
     <<<<"P", "K">>, <<<<"P", "K">>, <<"P", "A", "R", "K">>, <<"P", "K", "W", "Y">>, <<"P", "A", "R", "K", "W", "A", "Y">>>> >>,
     <<<<"S", "Q">>, <<<<"S", "Q">>, <<"S", "Q", "U", "A", "R", "E">>>> >>,
     <<<<"H", "W", "Y">>, <<<<"H", "W", "Y">>, <<"H", "I", "G", "H", "W", "A", "Y">>>> >> >>

\* the loop that fills TYPE_TO_CANONICAL: one <<variation, canonical>> entry
\* per spelling, group after group
RECURSIVE ReverseIndex(_)
ReverseIndex(groups) ==
  IF groups = <<>> THEN <<>>
  ELSE [v \in DOMAIN groups[1][2] |-> <<groups[1][2][v], groups[1][1]>>]
         \o ReverseIndex(Tail(groups))

TYPE_TO_CANONICAL == ReverseIndex(STREET_TYPES)

\* the alternatives of the unit pattern (#|APT\.?|UNIT|STE\.?|SUITE) in the
\* order the regex engine tries them (an optional period is tried first)
UnitMarkerPatterns ==
  << <<"#">>, <<"A", "P", "T", ".">>, <<"A", "P", "T">>, <<"U", "N", "I", "T">>,
     <<"S", "T", "E", ".">>, <<"S", "T", "E">>, <<"S", "U", "I", "T", "E">> >>

\* the character class [A-Z0-9-] under re.IGNORECASE
IsUnitChar(c) == IsAlpha(c) \/ IsDigit(c) \/ c = "-"

\* \s*([A-Z0-9-]+)\s*$ on the text that follows a marker: one run of class
\* characters, whitespace around it, nothing else up to the end
IsUnitTail(t) ==
  /\ Len(Split(t)) = 1
  /\ \A i \in DOMAIN Split(t)[1] : IsUnitChar(Split(t)[1][i])

\* the alternatives that match at position i of addr
UnitMatchesAt(addr, i) ==
  { p \in DOMAIN UnitMarkerPatterns :
      /\ MatchesAt(addr, i, UnitMarkerPatterns[p])
      /\ IsUnitTail(SubSeq(addr, i + Len(UnitMarkerPatterns[p]), Len(addr))) }

\* re.search(...): the leftmost position with a match, and there the first
\* alternative that matches; <<>> when there is none, else
\* <<[start, unit]>> with unit_match.start() and unit_match.group(2)
UnitSearch(addr) ==
  LET starts == { i \in 1..Len(addr) : UnitMatchesAt(addr, i) # {} }
  IN  IF starts = {} THEN <<>>
      ELSE LET i == Min(starts)
               p == Min(UnitMatchesAt(addr, i))
           IN  << [start |-> i,
                   unit  |-> Split(SubSeq(addr, i + Len(UnitMarkerPatterns[p]),
                                          Len(addr)))[1]] >>

\* parts[0].isdigit() or re.match(r'^\d+[A-Z]?$', parts[0], re.IGNORECASE)
IsStreetNumber(tok) ==
  /\ Len(tok) >= 1
  /\ \/ \A i \in 1..Len(tok) : IsDigit(tok[i])
     \/ /\ Len(tok) >= 2
        /\ \A i \in 1..(Len(tok) - 1) : IsDigit(tok[i])
        /\ IsAlpha(tok[Len(tok)])

\* last = parts[-1].upper(); last in TYPE_TO_CANONICAL
IsStreetType(tok) == HasKey(TYPE_TO_CANONICAL, Upper(tok))

EmptyResult_Stripped(address) ==
  [street_number |-> <<>>, street_name |-> <<>>, street_type |-> <<>>,
   unit |-> <<>>, original |-> Strip(address)]

\* the dict returned when nothing has been parsed
EmptyResult(address) ==
  [street_number |-> <<>>, street_name |-> <<>>, street_type |-> <<>>,
   unit |-> <<>>, original |-> address]

\* lines 98-115, on the tokens left once the number has been taken
ParseNameAndType(result, rest) ==
  IF rest = <<>> THEN result
  ELSE IF IsStreetType(rest[Len(rest)])
       THEN [result EXCEPT !.street_type = rest[Len(rest)],
                           !.street_name = Join(SubSeq(rest, 1, Len(rest) - 1))]
       ELSE [result EXCEPT !.street_name = Join(rest)]

\* lines 92-115, on the tokens of the address without its unit
ParseParts(result, parts) ==
  IF parts = <<>> THEN result
  ELSE IF IsStreetNumber(parts[1])
       THEN ParseNameAndType([result EXCEPT !.street_number = parts[1]], Tail(parts))
       ELSE ParseNameAndType(result, parts)

parse_address(address) ==
  IF address = <<>> THEN EmptyResult(address)
  ELSE With(Strip(address), LAMBDA stripped :
         With(UnitSearch(stripped), LAMBDA m :
           IF m # <<>>
           THEN With(Split(Strip(SubSeq(stripped, 1, m[1].start - 1))),
                     LAMBDA parts :
                       ParseParts([EmptyResult(address) EXCEPT !.unit = m[1].unit],
                                  parts))
           ELSE With(Split(stripped),
                     LAMBDA parts : ParseParts(EmptyResult(address), parts))))

\* TYPE_TO_CANONICAL.get(street_type, street_type)
CanonicalType(street_type) ==
  IF HasKey(TYPE_TO_CANONICAL, street_type)
  THEN Get(TYPE_TO_CANONICAL, street_type) ELSE street_type

\* f"{street_num} {street_name} {canonical_type}".strip()
normalize_address(address) ==
  IF address = <<>> THEN <<>>
  ELSE With(parse_address(address), LAMBDA parsed :
         Strip(parsed.street_number \o <<" ">> \o Upper(parsed.street_name)
                 \o <<" ">> \o CanonicalType(Upper(parsed.street_type))))

get_street_name_variations_NoTitle(street_name) ==
  LET name_upper == Upper(street_name)
  IN  {name_upper, Lower(street_name), Title(street_name)}
        \cup (IF HasKey(NUMBERED_STREETS, name_upper)
              THEN LET alternate == Get(NUMBERED_STREETS, name_upper)
                   IN  {alternate, Lower(alternate)}
              ELSE {})

\* the set `variations`; the returned list holds its elements in no
\* specified order
get_street_name_variations(street_name) ==
  LET name_upper == Upper(street_name)
  IN  {name_upper, Lower(street_name), Title(street_name)}
        \cup (IF HasKey(NUMBERED_STREETS, name_upper)
              THEN LET alternate == Get(NUMBERED_STREETS, name_upper)
                   IN  {alternate, Lower(alternate), Title(alternate)}
              ELSE {})

get_street_type_variations(street_type) ==
  LET type_upper == Upper(street_type)
      canonical  == IF HasKey(TYPE_TO_CANONICAL, type_upper)
                    THEN Get(TYPE_TO_CANONICAL, type_upper) ELSE type_upper
  IN  IF HasKey(STREET_TYPES, canonical)
      THEN UNION { {var, Lower(var), Title(var)} :
                     var \in Range(Get(STREET_TYPES, canonical)) }
      ELSE {type_upper, Lower(street_type), Title(street_type)}

\* list(set(...)): the elements of a set as a list without repetition; the
\* order is the set's iteration order, which Python leaves unspecified
RECURSIVE SetToList(_)
SetToList(S) ==
  IF S = {} THEN <<>>
  ELSE LET x == CHOOSE y \in S : TRUE IN <<x>> \o SetToList(S \ {x})

\* all_variations, the list the nested loops build
RECURSIVE Product(_, _, _)
Product(street_number, names, types) ==
  IF names = <<>> THEN <<>>
  ELSE [t \in DOMAIN types |->
          street_number \o <<" ">> \o names[1] \o <<" ">> \o types[t]]
         \o Product(street_number, Tail(names), types)

generate_address_variations(street_number, street_name, street_type) ==
  LET name_variations == SetToList(get_street_name_variations(street_name))
      type_variations == SetToList(get_street_type_variations(street_type))
      all_variations  == Product(street_number, name_variations, type_variations)
  IN  SetToList(Range(all_variations))

---------------------------------------------------------------------------
(* src/modules/geocoder.py *)

\* hundredths of a degree
BERKELEY_BOUNDS ==
  [lat_min |-> 3784, lat_max |-> 3791, lon_min |-> -12232, lon_max |-> -12223]

word_to_num ==
  << <<<<"F", "I", "R", "S", "T">>, <<"1", "S", "T">>>>,
     <<<<"S", "E", "C", "O", "N", "D">>, <<"2", "N", "D">>>>,
     <<<<"T", "H", "I", "R", "D">>, <<"3", "R", "D">>>>,
     <<<<"F", "O", "U", "R", "T", "H">>, <<"4", "T", "H">>>>,
     <<<<"F", "I", "F", "T", "H">>, <<"5", "T", "H">>>>,
     <<<<"S", "I", "X", "T", "H">>, <<"6", "T", "H">>>>,
     <<<<"S", "E", "V", "E", "N", "T", "H">>, <<"7", "T", "H">>>>,
     <<<<"E", "I", "G", "H", "T", "H">>, <<"8", "T", "H">>>>,
     <<<<"N", "I", "N", "T", "H">>, <<"9", "T", "H">>>>,
     <<<<"T", "E", "N", "T", "H">>, <<"1", "0", "T", "H">>>>,
     <<<<"E", "L", "E", "V", "E", "N", "T", "H">>, <<"1", "1", "T", "H">>>>,
     <<<<"T", "W", "E", "L", "F", "T", "H">>, <<"1", "2", "T", "H">>>> >>

type_map ==
  << <<<<"S", "T">>, <<"S", "t">>>>,
     <<<<"A", "V">>, <<"A", "v">>>>,
     <<<<"A", "V", "E">>, <<"A", "v">>>>,
     <<<<"A", "V", "E", "N", "U", "E">>, <<"A", "v">>>>,
     <<<<"W", "Y">>, <<"W", "y">>>>,
     <<<<"W", "A", "Y">>, <<"W", "y">>>>,
     <<<<"B", "L">>, <<"B", "l">>>>,
     <<<<"B", "L", "V", "D">>, <<"B", "l">>>>,
     <<<<"B", "O", "U", "L", "E", "V", "A", "R", "D">>, <<"B", "l">>>>,
     <<<<"R", "D">>, <<"R", "d">>>>,
     <<<<"R", "O", "A", "D">>, <<"R", "d">>>>,
     <<<<"D", "R">>, <<"D", "r">>>>,
     <<<<"D", "R", "I", "V", "E">>, <<"D", "r">>>>,
     <<<<"P", "L">>, <<"P", "l">>>>,
     <<<<"P", "L", "A", "C", "E">>, <<"P", "l">>>>,
     <<<<"C", "T">>, <<"C", "t">>>>,
     <<<<"C", "O", "U", "R", "T">>, <<"C", "t">>>>,
     <<<<"L", "N">>, <<"L", "n">>>>,
     <<<<"L", "A", "N", "E">>, <<"L", "n">>>>,
     <<<<"S", "Q">>, <<"S", "q">>>>,
     <<<<"S", "Q", "U", "A", "R", "E">>, <<"S", "q">>>>,
     <<<<"T", "E">>, <<"T", "e">>>>,
     <<<<"T", "E", "R">>, <<"T", "e">>>>,
     <<<<"T", "E", "R", "R", "A", "C", "E">>, <<"T", "e">>>>,
     <<<<"C", "I">>, <<"C", "i">>>>,
     <<<<"C", "I", "R">>, <<"C", "i">>>>,
     <<<<"C", "I", "R", "C", "L", "E">>, <<"C", "i">>>> >>

normalize_street_name_NoConversion(name) == Upper(Strip(name))

normalize_street_name(name) ==
  With(Upper(Strip(name)), LAMBDA name_upper :
    IF HasKey(word_to_num, name_upper) THEN Get(word_to_num, name_upper)
    ELSE name_upper)

\* re.match(r'^(\d+)(ST|ND|RD|TH)$', s): one or more digits, then one of the
\* four suffixes in upper case
IsOrdinalNumeral(s) ==
  /\ Len(s) >= 3
  /\ \A i \in 1..(Len(s) - 2) : IsDigit(s[i])
  /\ SubSeq(s, Len(s) - 1, Len(s)) \in
       { <<"S", "T">>, <<"N", "D">>, <<"R", "D">>, <<"T", "H">> }

\* None is <<>>, a string s is <<s>>
normalize_address_for_lookup(address) ==
  With(Split(Strip(address)), LAMBDA parts :
    IF Len(parts) < 3 THEN <<>>
    ELSE
      With(normalize_street_name(parts[2]), LAMBDA converted :
        With(Upper(parts[3]), LAMBDA street_type_upper :
          LET street_num  == parts[1]
              street_type == parts[3]
              normalized_name ==
                IF IsOrdinalNumeral(converted)
                THEN SubSeq(converted, 1, Len(converted) - 2)
                       \o Lower(SubSeq(converted, Len(converted) - 1, Len(converted)))
                ELSE converted
              normalized_type ==
                IF HasKey(type_map, street_type_upper)
                THEN Get(type_map, street_type_upper) ELSE Title(street_type)
          IN  << street_num \o <<" ">> \o normalized_name \o <<" ">>
                   \o normalized_type >>)))

\* df_lookup[df_lookup['original_address'] == normalized], as row indices
MatchingRows(table, normalized) ==
  { i \in DOMAIN table : table[i].original_address = normalized }

geocode_from_lookup_LastMatch(address, table) ==
  With(normalize_address_for_lookup(address), LAMBDA normalized :
    IF normalized = <<>>
    THEN [result |-> <<>>, query |-> <<>>, io |-> <<>>]
    ELSE
      With(MatchingRows(table, normalized[1]), LAMBDA match :
        IF match # {}
        THEN [result |->
                << [latitude  |-> table[Max(match)].latitude,
                    longitude |-> table[Max(match)].longitude,
                    apn       |-> table[Max(match)].APN,
                    original_address |-> table[Max(match)].original_address,
                    normalized_input |-> normalized[1]] >>,
              query |-> normalized, io |-> <<"read">>]
        ELSE [result |-> <<>>, query |-> normalized, io |-> <<"read">>]))

\* The outcome of one call: the value returned (None is <<>>), the query
\* string built (the local `normalized`), and the accesses to the lookup
\* file in the order made.
geocode_from_lookup(address, table) ==
  With(normalize_address_for_lookup(address), LAMBDA normalized :
    IF normalized = <<>>
    THEN [result |-> <<>>, query |-> <<>>, io |-> <<>>]
    ELSE
      With(MatchingRows(table, normalized[1]), LAMBDA match :
        IF match # {}
        THEN [result |->
                << [latitude  |-> table[Min(match)].latitude,
                    longitude |-> table[Min(match)].longitude,
                    apn       |-> table[Min(match)].APN,
                    original_address |-> table[Min(match)].original_address,
                    normalized_input |-> normalized[1]] >>,
              query |-> normalized, io |-> <<"read">>]
        ELSE [result |-> <<>>, query |-> normalized, io |-> <<"read">>]))

geocode_dataframe_row_CountsEveryRow(row, apn_column, table) ==
  IF row.latitude # <<>>
  THEN [row |-> row, filled |-> FALSE, io |-> <<>>]
  ELSE With(geocode_from_lookup(row.address, table), LAMBDA out :
         IF out.result # <<>>
         THEN [row |-> [row EXCEPT !.latitude = <<out.result[1].latitude>>,
                                   !.longitude = <<out.result[1].longitude>>,
                                   !.APN = IF apn_column THEN out.result[1].apn ELSE @],
               filled |-> TRUE, io |-> out.io]
         ELSE [row |-> row, filled |-> TRUE, io |-> out.io])

\* One pass of the loop of geocode_dataframe (lines 150-162) on one row: the
\* row afterwards, whether geocoded_count is incremented, and the accesses
\* to the lookup file.  A missing latitude or longitude is <<>>.
geocode_dataframe_row(row, apn_column, table) ==
  IF row.latitude # <<>>
  THEN [row |-> row, filled |-> FALSE, io |-> <<>>]
  ELSE With(geocode_from_lookup(row.address, table), LAMBDA out :
         IF out.result # <<>>
         THEN [row |-> [row EXCEPT !.latitude = <<out.result[1].latitude>>,
                                   !.longitude = <<out.result[1].longitude>>,
                                   !.APN = IF apn_column THEN out.result[1].apn ELSE @],
               filled |-> TRUE, io |-> out.io]
         ELSE [row |-> row, filled |-> FALSE, io |-> out.io])

validate_coordinates_Open(latitude, longitude, city) ==
  IF city = "Berkeley"
  THEN /\ BERKELEY_BOUNDS.lat_min < latitude
       /\ latitude < BERKELEY_BOUNDS.lat_max
       /\ BERKELEY_BOUNDS.lon_min < longitude
       /\ longitude < BERKELEY_BOUNDS.lon_max
  ELSE FALSE

validate_coordinates(latitude, longitude, city) ==
  IF city = "Berkeley"
  THEN /\ BERKELEY_BOUNDS.lat_min <= latitude
       /\ latitude <= BERKELEY_BOUNDS.lat_max
       /\ BERKELEY_BOUNDS.lon_min <= longitude
       /\ longitude <= BERKELEY_BOUNDS.lon_max
  ELSE FALSE

\* the row appended: the normalized address, or the address as given when
\* normalization returns None; apn is <<>> when none is given
NewEntry(address, latitude, longitude, apn) ==
  LET normalized == normalize_address_for_lookup(address)
  IN  [original_address |-> IF normalized # <<>> THEN normalized[1] ELSE address,
       latitude |-> latitude, longitude |-> longitude, APN |-> apn]

add_manual_geocode_Prepends(address, latitude, longitude, apn, table) ==
  IF ~validate_coordinates(latitude, longitude, "Berkeley")
  THEN [result |-> FALSE, table |-> table, io |-> <<>>]
  ELSE [result |-> TRUE,
        table  |-> <<NewEntry(address, latitude, longitude, apn)>> \o table,
        io     |-> <<"read", "write">>]

add_manual_geocode_ValidatesAfterWrite(address, latitude, longitude, apn, table) ==
  [result |-> validate_coordinates(latitude, longitude, "Berkeley"),
   table  |-> Append(table, NewEntry(address, latitude, longitude, apn)),
   io     |-> <<"read", "write">>]

\* The outcome of one call: the value returned, the rows of the lookup file
\* afterwards, and the accesses to the file in the order made.
add_manual_geocode(address, latitude, longitude, apn, table) ==
  IF ~validate_coordinates(latitude, longitude, "Berkeley")
  THEN [result |-> FALSE, table |-> table, io |-> <<>>]
  ELSE [result |-> TRUE,
        table  |-> Append(table, NewEntry(address, latitude, longitude, apn)),
        io     |-> <<"read", "write">>]


addresses_match_OrdinalAware(addr1, addr2) ==
  normalize_address_for_lookup(addr1) = normalize_address_for_lookup(addr2)

\* normalize_address(addr1) == normalize_address(addr2)
addresses_match(addr1, addr2) ==
  normalize_address(addr1) = normalize_address(addr2)
---------------------------------------------------------------------------
(* Bounds and inputs *)

\* the lookup table grows to at most this many rows
MaxRows == 2

\* the longest raw address handed to the resolver, in tokens
MaxTokens == 5

\* the most words between the number and the type of a parsed address
MaxMid == 2

\* the most rows in a dataframe handed to geocode_dataframe
MaxBatch == 2

\* the most entries in a list of inspections that is no prefix of the sequence
MaxInspections == 2

s_1914 == <<"1", "9", "1", "4">>

s_2700 == <<"2", "7", "0", "0">>

s_12a == <<"1", "2", "a">>

s_123 == <<"1", "2", "3">>

s_Shattuck == <<"S", "h", "a", "t", "t", "u", "c", "k">>

s_Webster == <<"W", "e", "b", "s", "t", "e", "r">>

s_Baptiste == <<"B", "a", "p", "t", "i", "s", "t", "e">>

s_Main == <<"M", "a", "i", "n">>

s_Multi == <<"M", "u", "l", "t", "i">>

s_Word == <<"W", "o", "r", "d">>

s_Ave == <<"A", "v", "e">>

s_St == <<"S", "t">>

s_ST == <<"S", "T">>

s_Lane == <<"L", "a", "n", "e">>

s_Xy == <<"X", "y">>

s_APT == <<"A", "P", "T">>

s_AptDot == <<"A", "p", "t", ".">>

s_Unit == <<"U", "n", "i", "t">>

s_3 == <<"3">>

s_B == <<"B">>

s_Hash101 == <<"#", "1", "0", "1">>

s_Hash == <<"#">>

s_13Th == <<"1", "3", "T", "h">>

\* the ordinal words for positions 1..12
OrdinalWords ==
  << <<"F", "I", "R", "S", "T">>, <<"S", "E", "C", "O", "N", "D">>,
     <<"T", "H", "I", "R", "D">>, <<"F", "O", "U", "R", "T", "H">>,
     <<"F", "I", "F", "T", "H">>, <<"S", "I", "X", "T", "H">>,
     <<"S", "E", "V", "E", "N", "T", "H">>, <<"E", "I", "G", "H", "T", "H">>,
     <<"N", "I", "N", "T", "H">>, <<"T", "E", "N", "T", "H">>,
     <<"E", "L", "E", "V", "E", "N", "T", "H">>,
     <<"T", "W", "E", "L", "F", "T", "H">> >>

Positions == DOMAIN OrdinalWords

\* the decimal digits of k and its English ordinal suffix, in upper case
OrdinalNumeral(k) ==
  (IF k < 10 THEN <<DigitChars[k + 1]>> ELSE <<"1", DigitChars[k - 9]>>)
    \o (CASE k = 1 -> <<"S", "T">>
          [] k = 2 -> <<"N", "D">>
          [] k = 3 -> <<"R", "D">>
          [] OTHER -> <<"T", "H">>)

\* the spellings of position k as a name token: FIFTH, Fifth, fifth, 5TH, 5th
OrdinalSpellings(k) ==
  { OrdinalWords[k], Title(OrdinalWords[k]), Lower(OrdinalWords[k]),
    OrdinalNumeral(k), Lower(OrdinalNumeral(k)) }

OrdinalNames == UNION { OrdinalSpellings(k) : k \in Positions }

SeqsUpTo(S, n) == UNION { [1..m -> S] : m \in 0..n }

NonEmpty(parts) == SelectSeq(parts, LAMBDA p : p # <<>>)

\* "{number} {ordinal name} St", every position and casing
OrdinalAddresses == { Join(<<s_1914, n, s_St>>) : n \in OrdinalNames }

\* "{number} {name} {type}" with a name that is no ordinal word
PlainAddresses ==
  { Join(<<s_2700, n, t>>) :
      n \in {s_Shattuck, Upper(s_Shattuck), s_13Th},
      t \in {s_Ave, s_ST, s_Lane, s_Xy} }

TokenPool == <<s_123, s_Multi, s_Word, s_Lane, s_Hash101, s_B, s_3, s_Main>>

\* raw addresses of 0..MaxTokens tokens
CountedAddresses ==
  { Join(SubSeq(TokenPool, 1, n)) : n \in 0..MaxTokens }
    \cup { Join(<<s_2700, s_Shattuck>>),
           Join(<<s_2700, s_Shattuck, s_Ave, s_Hash101>>),
           <<" ", " ">> \o Join(<<s_2700, s_Shattuck>>) \o <<" ", " ">>
             \o s_Ave \o <<" ">> }

GeocodeInputs == OrdinalAddresses \cup PlainAddresses \cup CountedAddresses

Latitudes == {3783, 3784, 3787, 3791, 3792, 4000}

Longitudes == {-12233, -12232, -12227, -12223, -12222}

Cities == {"Berkeley", "berkeley", "Oakland"}

ManualAddresses ==
  { Join(<<s_1914, Title(OrdinalWords[5]), s_St>>), Join(<<s_2700, s_Shattuck>>),
    Join(<<s_123, s_Multi, s_Word, s_Lane>>), Join(<<s_2700, s_Shattuck, s_Ave>>) }

\* <<address, latitude, longitude, apn>>
ManualInputs ==
  { <<a, c[1], c[2], <<>>>> :
      a \in ManualAddresses,
      c \in { <<3787, -12227>>, <<4000, -12227>>, <<3787, -12233>>,
              <<3783, -12232>> } }
    \cup { <<Join(<<s_1914, Title(OrdinalWords[5]), s_St>>), 3784, -12232,
             <<s_B>>>> }

\* the rows a dataframe is made of: addresses to look up, and a row that
\* already has its coordinates
DataframeRows ==
  { [address |-> a, latitude |-> <<>>, longitude |-> <<>>, APN |-> <<>>] :
      a \in { Join(<<s_1914, Title(OrdinalWords[5]), s_St>>),
              Join(<<s_2700, s_Shattuck>>) } }
    \cup { [address |-> Join(<<s_1914, Title(OrdinalWords[5]), s_St>>),
             latitude |-> <<3786>>, longitude |-> <<-12229>>, APN |-> <<>>] }

\* dataframes of 0..MaxBatch rows, without and with an APN column
DataframeInputs ==
  { [rows |-> r, apn_column |-> c] :
      r \in SeqsUpTo(DataframeRows, MaxBatch), c \in BOOLEAN }

Row(address, latitude, longitude, apn) ==
  [original_address |-> address, latitude |-> latitude,
   longitude |-> longitude, APN |-> apn]

\* a table as the county publishes it: one row per numbered street, a row
\* with a plain name, and a second row for an address already listed
AlamedaTable ==
  [k \in Positions |->
     Row(Join(<<s_1914, Lower(OrdinalNumeral(k)), s_St>>), 3785 + (k % 6),
         -12230 + (k % 7), <<s_3>>)]
    \o << Row(Join(<<s_2700, s_Shattuck, <<"A", "v">> >>), 3786, -12227, <<>>),
          Row(Join(<<s_1914, Lower(OrdinalNumeral(5)), s_St>>), 3791, -12223,
              <<s_B>>) >>

InitTables ==
  { <<>>, AlamedaTable,
    << Row(Join(<<s_2700, s_Shattuck, <<"A", "v">> >>), 3786, -12227, <<>>) >> }

MidTokens == {s_Shattuck, s_Webster, s_Baptiste, OrdinalWords[5], s_Unit, s_St}

\* a unit written with one explicit marker: "#101", "APT 3", "Apt. B"
SingleUnitSuffixes == { s_Hash101, Join(<<s_APT, s_3>>), Join(<<s_AptDot, s_B>>) }

\* no unit, one unit, two units
UnitSuffixes ==
  {<<>>} \cup SingleUnitSuffixes \cup { Join(<<s_APT, s_3, s_Hash101>>) }

\* [number] [words] [type] [unit suffix], each part optional
TextAddresses ==
  { Join(NonEmpty(<<n, Join(m), t, u>>)) :
      n \in {<<>>, s_1914, s_12a},
      m \in SeqsUpTo(MidTokens, MaxMid),
      t \in {<<>>, s_Ave, s_ST, s_Lane, s_Xy},
      u \in UnitSuffixes }
    \cup { <<" ", " ">>,
           <<" ">> \o s_1914 \o <<" ", " ">> \o s_Shattuck \o <<" ", " ", " ">>
             \o s_Ave \o <<" ", " ">> \o s_Hash101 \o <<" ">> }

\* every spelling the street-type table registers
TypeSpellings == UNION { Range(STREET_TYPES[g][2]) : g \in DOMAIN STREET_TYPES }

\* "{number} {name} {type}", the type every spelling of STREET_TYPES in upper,
\* lower and title case
TypedAddresses ==
  { Join(<<s_1914, s_Shattuck, t>>) :
      t \in UNION { {v, Lower(v), Title(v)} : v \in TypeSpellings } }

LookupFormInputs == TextAddresses \cup TypedAddresses

\* pairs <<addr1, addr2>>: the word form against the numeral form of each
\* numbered street, and pairs that differ in casing or type spelling only
MatchInputs ==
  UNION { { <<Join(<<s_1914, w, t>>), Join(<<s_1914, n, t>>)>> :
              w \in {OrdinalWords[k], Title(OrdinalWords[k])},
              n \in {OrdinalNumeral(k), Lower(OrdinalNumeral(k))},
              t \in {s_ST, s_Ave} } : k \in Positions }
    \cup { <<Join(<<s_1914, s_Shattuck, s_Ave>>), Join(<<s_1914, Upper(s_Shattuck), t>>)>> :
             t \in {s_Ave, Upper(s_Ave), <<"A", "v">>, s_St} }

VariationInputs ==
  { <<n, name, t>> :
      n \in {s_1914},
      name \in OrdinalNames \cup {s_Shattuck, s_13Th},
      t \in {s_ST, s_Ave, Lower(s_Lane), s_Xy, <<>>} }

---------------------------------------------------------------------------
(* The lookup table and the calls made on it *)

NoCall == [fn |-> "none"]

Idle == call = NoCall

Init ==
  /\ lookup \in InitTables
  /\ call = NoCall

\* geocode_dataframe has rows left to process
InProgress ==
  /\ call.fn = "geocode_dataframe"
  /\ call.idx <= Len(call.df)

\* the caller has taken the outcome and is ready for its next call
Return ==
  /\ ~Idle
  /\ ~InProgress
  /\ call' = NoCall
  /\ UNCHANGED lookup

GeocodeFromLookup ==
  /\ Idle
  /\ \E address \in GeocodeInputs :
       \E out \in {geocode_from_lookup(address, lookup)} :
           call' = [fn |-> "geocode_from_lookup", address |-> address,
                    query |-> out.query, match |-> out.result, io |-> out.io]
  /\ UNCHANGED lookup

ValidateCoordinates ==
  /\ Idle
  /\ \E latitude \in Latitudes, longitude \in Longitudes, city \in Cities :
       call' = [fn |-> "validate_coordinates", latitude |-> latitude,
                longitude |-> longitude, city |-> city,
                result |-> validate_coordinates(latitude, longitude, city)]
  /\ UNCHANGED lookup

\* a call that would take the table past MaxRows rows is left out
AddManualGeocode ==
  /\ Idle
  /\ \E m \in ManualInputs :
       \E out \in {add_manual_geocode(m[1], m[2], m[3], m[4], lookup)} :
           /\ Len(out.table) <= MaxRows \/ out.table = lookup
           /\ lookup' = out.table
           /\ call' = [fn |-> "add_manual_geocode", address |-> m[1],
                        latitude |-> m[2], longitude |-> m[3], apn |-> m[4],
                        result |-> out.result, io |-> out.io]

\* lines 143-148: the call begins; `given` is the dataframe as handed in
GeocodeDataframe ==
  /\ Idle
  /\ \E d \in DataframeInputs :
       call' = [fn |-> "geocode_dataframe", given |-> d.rows, df |-> d.rows,
                apn_column |-> d.apn_column, idx |-> 1, geocoded_count |-> 0,
                started_on |-> lookup, looked_up |-> {}]
  /\ UNCHANGED lookup

\* lines 150-162: the loop handles the row at idx; once idx has passed the
\* last row the call has returned (df, geocoded_count)
GeocodeDataframeRow ==
  /\ InProgress
  /\ \E out \in {geocode_dataframe_row(call.df[call.idx], call.apn_column, lookup)} :
       call' = [call EXCEPT
                  !.df = [@ EXCEPT ![call.idx] = out.row],
                  !.geocoded_count = IF out.filled THEN @ + 1 ELSE @,
                  !.looked_up = IF call.df[call.idx].latitude = <<>>
                                THEN @ \cup {call.idx} ELSE @,
                  !.idx = @ + 1]
  /\ UNCHANGED lookup

\* add_manual_geocode run by another process between two rows of a batch
AddManualGeocodeDuringBatch ==
  /\ InProgress
  /\ \E m \in ManualInputs :
       \E out \in {add_manual_geocode(m[1], m[2], m[3], m[4], lookup)} :
           /\ out.result
           /\ Len(out.table) <= MaxRows
           /\ lookup' = out.table
  /\ UNCHANGED call

Next ==
  \/ GeocodeFromLookup
  \/ ValidateCoordinates
  \/ AddManualGeocode
  \/ GeocodeDataframe
  \/ GeocodeDataframeRow
  \/ AddManualGeocodeDuringBatch
  \/ Return

Spec == Init /\ [][Next]_vars

\* the loop of geocode_dataframe, once entered, keeps taking rows
FairSpec == Spec /\ WF_vars(GeocodeDataframeRow)

---------------------------------------------------------------------------
(* The pure transforms on address text *)

InitText ==
  /\ lookup = <<>>
  /\ call = NoCall

ParseAddress ==
  /\ Idle
  /\ \E address \in TextAddresses :
       call' = [fn |-> "parse_address", address |-> address,
                result |-> parse_address(address)]
  /\ UNCHANGED lookup

NormalizeAddress ==
  /\ Idle
  /\ \E address \in TextAddresses :
       call' = [fn |-> "normalize_address", address |-> address,
                normalized |-> normalize_address(address)]
  /\ UNCHANGED lookup

NormalizeAddressForLookup ==
  /\ Idle
  /\ \E address \in LookupFormInputs :
       call' = [fn |-> "normalize_address_for_lookup", address |-> address,
                query |-> normalize_address_for_lookup(address)]
  /\ UNCHANGED lookup

GenerateAddressVariations ==
  /\ Idle
  /\ \E v \in VariationInputs :
       call' = [fn |-> "generate_address_variations", street_number |-> v[1],
                street_name |-> v[2], street_type |-> v[3],
                variations |-> generate_address_variations(v[1], v[2], v[3])]
  /\ UNCHANGED lookup

AddressesMatch ==
  /\ Idle
  /\ \E p \in MatchInputs :
       call' = [fn |-> "addresses_match", addr1 |-> p[1], addr2 |-> p[2],
                matches |-> addresses_match(p[1], p[2])]
  /\ UNCHANGED lookup

NextText ==
  \/ ParseAddress
  \/ NormalizeAddress
  \/ NormalizeAddressForLookup
  \/ GenerateAddressVariations
  \/ AddressesMatch
  \/ Return

SpecText == InitText /\ [][NextText]_vars

---------------------------------------------------------------------------
(* Properties of the lookup resolver and the manual-entry path (Spec) *)

IsOrdinalWord(name) == \E k \in Positions : Upper(name) = OrdinalWords[k]

\* the type as the lookup convention writes it
FoldedType(t) ==
  IF HasKey(type_map, Upper(t)) THEN Get(type_map, Upper(t)) ELSE Title(t)

HasRow(table, address) == \E i \in DOMAIN table : table[i].original_address = address

InBerkeleyBox(latitude, longitude) ==
  /\ 3784 <= latitude /\ latitude <= 3791
  /\ -12232 <= longitude /\ longitude <= -12223

\* a name of letters only that is no ordinal word
IsPlainName(name) ==
  /\ \A i \in DOMAIN name : IsAlpha(name[i])
  /\ ~IsOrdinalWord(name)

\* C1: for a three-token input "{number} {name} {type}" whose name is no
\* ordinal word, geocode_from_lookup builds the query
\* "{number} {name exactly as written} {folded type}" and returns a match
\* whenever the table holds that row.
C1_NamePassThrough ==
  (/\ call.fn = "geocode_from_lookup"
   /\ Len(Split(call.address)) = 3
   /\ IsPlainName(Split(call.address)[2]))
  => LET t == Split(call.address)
         expected == Join(<<t[1], t[2], FoldedType(t[3])>>)
     IN  /\ call.query = <<expected>>
         /\ HasRow(lookup, expected) => call.match # <<>>

\* C2: for every position k in 1..12 and every casing of its word or numeral
\* form as the name token, geocode_from_lookup("{number} {name} St") builds
\* the query "{number} {k with lower-case suffix} St", never one with the word
\* form or an upper-case suffix, and returns a match for that address when
\* the table holds such a row.
C2_OrdinalConversion ==
  \A k \in Positions :
    (/\ call.fn = "geocode_from_lookup"
     /\ Len(Split(call.address)) = 3
     /\ Split(call.address)[2] \in OrdinalSpellings(k)
     /\ Split(call.address)[3] = s_St)
    => LET q == Join(<<Split(call.address)[1], Lower(OrdinalNumeral(k)), s_St>>)
       IN  /\ call.query = <<q>>
           /\ HasRow(lookup, q) =>
                (call.match # <<>> /\ call.match[1].original_address = q)

\* a word-form input ("1914 Fifth St") has been resolved to a row
C2_Witness ==
  /\ call.fn = "geocode_from_lookup"
  /\ Split(call.address) = <<s_1914, Title(OrdinalWords[5]), s_St>>
  /\ call.match # <<>>
  /\ call.match[1].original_address = Join(<<s_1914, <<"5", "t", "h">>, s_St>>)

\* C3: for every raw address whose token count is not exactly 3,
\* geocode_from_lookup returns None whatever rows the table holds.
C3_OtherTokenCountsMiss ==
  (call.fn = "geocode_from_lookup" /\ Len(Split(call.address)) # 3)
  => call.match = <<>>

\* C8: add_manual_geocode with coordinates outside the Berkeley box returns
\* False, leaves the rows of the lookup table as they were, and neither reads
\* nor rewrites the table file.
C8_RejectedLeavesTable ==
  [][(/\ call'.fn = "add_manual_geocode"
      /\ ~InBerkeleyBox(call'.latitude, call'.longitude))
     => (call'.result = FALSE /\ lookup' = lookup /\ call'.io = <<>>)]_vars

\* an entry has been rejected on a table that holds rows
C8_Witness ==
  /\ call.fn = "add_manual_geocode"
  /\ ~InBerkeleyBox(call.latitude, call.longitude)
  /\ call.result = FALSE
  /\ Len(lookup) > 0

\* C9: validate_coordinates(lat, lon, 'Berkeley') is true exactly when
\* 37.84 <= lat <= 37.91 and -122.32 <= lon <= -122.23, the four boundary
\* values included; for any other region name it is false.
C9_ClosedRectangle ==
  call.fn = "validate_coordinates"
  => call.result = (/\ call.city = "Berkeley"
                    /\ InBerkeleyBox(call.latitude, call.longitude))

\* a corner of the box has been accepted
C9_Witness ==
  /\ call.fn = "validate_coordinates"
  /\ call.city = "Berkeley"
  /\ call.latitude = 3784
  /\ call.longitude = -12223
  /\ call.result = TRUE

---------------------------------------------------------------------------
(* Properties of the parser, the normalizer and the variation generator *)
(* (SpecText)                                                           *)

\* digits, optionally with one trailing letter
IsNumericToken(tok) ==
  \E n \in 1..Len(tok) :
    /\ \A i \in 1..n : IsDigit(tok[i])
    /\ n = Len(tok) \/ (n = Len(tok) - 1 /\ IsAlpha(tok[Len(tok)]))

\* the token ends with a unit marker: #, APT, UNIT, STE or SUITE in any
\* casing, APT and STE with or without a period
EndsWithMarker(tok) ==
  \E p \in DOMAIN UnitMarkerPatterns :
    /\ Len(tok) >= Len(UnitMarkerPatterns[p])
    /\ MatchesAt(tok, Len(tok) - Len(UnitMarkerPatterns[p]) + 1, UnitMarkerPatterns[p])

\* the token begins with a unit marker
BeginsWithMarker(tok) ==
  \E p \in DOMAIN UnitMarkerPatterns : MatchesAt(tok, 1, UnitMarkerPatterns[p])

Last(s) == s[Len(s)]

\* C4: normalize_address is idempotent on every input, inputs with one or
\* several unit markers and inputs without number, name or type included.
C4_NormalizeIdempotent ==
  call.fn = "normalize_address"
  => normalize_address(call.normalized) = normalize_address(call.address)

\* C5: for any address whose first token is numeric and whose last token is
\* a recognized street-type spelling in any casing, parse_address returns the
\* first token as street_number and the last token as street_type, whatever
\* the tokens in between are.
C5_RecoversNumberAndType ==
  (/\ call.fn = "parse_address"
   /\ Len(Split(call.address)) >= 2
   /\ IsNumericToken(Split(call.address)[1])
   /\ Upper(Last(Split(call.address))) \in TypeSpellings)
  => /\ call.result.street_number = Split(call.address)[1]
     /\ call.result.street_type = Last(Split(call.address))

\* C6: when no token of the input begins with a unit marker, parse_address
\* returns an empty unit and keeps the final token whole, as the street type
\* or as the last word of the street name.
C6_NoImplicitUnit ==
  (/\ call.fn = "parse_address"
   /\ Split(call.address) # <<>>
   /\ \A i \in DOMAIN Split(call.address) : ~BeginsWithMarker(Split(call.address)[i]))
  => /\ call.result.unit = <<>>
     /\ \/ call.result.street_type = Last(Split(call.address))
        \/ /\ call.result.street_name # <<>>
           /\ Last(Split(call.result.street_name)) = Last(Split(call.address))
        \/ /\ Len(Split(call.address)) = 1
           /\ call.result.street_number = Last(Split(call.address))

\* the tokens of an address followed by the unit suffix u, the address part
\* non-empty, free of unit markers and of the tokens of u
IsAddressWithUnit(tokens, u) ==
  LET tu == Split(u)
      n  == Len(tokens) - Len(tu)
  IN  /\ tu # <<>>
      /\ n >= 1
      /\ SubSeq(tokens, n + 1, Len(tokens)) = tu
      /\ \A i \in 1..n :
           /\ ~BeginsWithMarker(tokens[i])
           /\ ~EndsWithMarker(tokens[i])
           /\ \A j \in DOMAIN tu : Upper(tokens[i]) # Upper(tu[j])

\* the text holds no token of the unit suffix u and no '#'
FreeOfUnit(text, u) ==
  /\ \A i \in DOMAIN text : text[i] # "#"
  /\ \A i \in DOMAIN Split(text), j \in DOMAIN Split(u) :
       Upper(Split(text)[i]) # Upper(Split(u)[j])

\* C7: for every address followed by a unit suffix written with an explicit
\* marker, neither normalize_address nor the query string of
\* normalize_address_for_lookup holds the marker or the unit token.
C7_UnitNeverInForms ==
  \A u \in SingleUnitSuffixes :
    /\ (call.fn = "normalize_address"
        /\ IsAddressWithUnit(Split(call.address), u))
       => FreeOfUnit(call.normalized, u)
    /\ (call.fn = "normalize_address_for_lookup"
        /\ IsAddressWithUnit(Split(call.address), u)
        /\ call.query # <<>>)
       => FreeOfUnit(call.query[1], u)

Casings(s) == {Upper(s), Lower(s), Title(s)}

\* the name variants of C10
NameVariants(name) ==
  Casings(name)
    \cup UNION { IF Upper(name) = OrdinalWords[k] THEN Casings(OrdinalNumeral(k))
                 ELSE IF Upper(name) = OrdinalNumeral(k) THEN Casings(OrdinalWords[k])
                 ELSE {} : k \in Positions }

\* the type variants of C10
TypeVariants(type) ==
  IF Upper(type) \in TypeSpellings
  THEN UNION { Casings(v) :
                 v \in UNION { Range(STREET_TYPES[g][2]) :
                                 g \in { h \in DOMAIN STREET_TYPES :
                                           Upper(type) \in Range(STREET_TYPES[h][2]) } } }
  ELSE Casings(type)

\* C10: generate_address_variations(number, name, type) returns, without
\* repetition, exactly the strings "{number} {n} {t}" for n among the name
\* variants and t among the type variants; for ("1914", "FIFTH", "ST") they
\* include "1914 5TH ST" and "1914 Fifth St".
C10_VariationsExact ==
  call.fn = "generate_address_variations"
  => /\ Range(call.variations) =
          { call.street_number \o <<" ">> \o n \o <<" ">> \o t :
              n \in NameVariants(call.street_name),
              t \in TypeVariants(call.street_type) }
     /\ Len(call.variations) = Cardinality(Range(call.variations))
     /\ (call.street_name = OrdinalWords[5] /\ call.street_type = s_ST)
        => /\ Join(<<s_1914, OrdinalNumeral(5), s_ST>>) \in Range(call.variations)
           /\ Join(<<s_1914, Title(OrdinalWords[5]), s_St>>) \in Range(call.variations)

\* the variations of ("1914", "FIFTH", "ST") hold both spellings
C10_Witness ==
  /\ call.fn = "generate_address_variations"
  /\ call.street_number = s_1914
  /\ call.street_name = <<"F", "I", "F", "T", "H">>
  /\ call.street_type = <<"S", "T">>
  /\ Join(<<s_1914, <<"5", "T", "H">>, <<"S", "T">> >>) \in Range(call.variations)
  /\ Join(<<s_1914, <<"F", "i", "f", "t", "h">>, <<"S", "t">> >>) \in Range(call.variations)


---------------------------------------------------------------------------
(* Further properties of the lookup form and of the normalized form *)

\* the spellings STREET_TYPES lists together with the spelling v
SameGroup(v) ==
  UNION { Range(STREET_TYPES[g][2]) :
            g \in { h \in DOMAIN STREET_TYPES : v \in Range(STREET_TYPES[h][2]) } }

\* the type token of the lookup form built for "{number} {name} {t}"
LookupType(number, name, t) ==
  Last(Split(normalize_address_for_lookup(Join(<<number, name, t>>))[1]))

\* C11: for every three-token input whose type is a spelling of STREET_TYPES
\* in any casing, normalize_address_for_lookup writes the type as one
\* title-cased form of 2 or 3 letters, the same form for every spelling of
\* the type's canonical group.
C11_TypeFoldCoversTable ==
  (/\ call.fn = "normalize_address_for_lookup"
   /\ Len(Split(call.address)) = 3
   /\ Upper(Split(call.address)[3]) \in TypeSpellings)
  => /\ call.query # <<>>
     /\ LET t == Split(call.address)
            f == Last(Split(call.query[1]))
        IN  /\ Len(f) \in {2, 3}
            /\ f = Title(f)
            /\ \A v \in SameGroup(Upper(t[3])) : LookupType(t[1], t[2], v) = f

\* no space at either end and no two spaces in a row
SingleSpaced(s) ==
  /\ s # <<>> => (~IsSpace(s[1]) /\ ~IsSpace(s[Len(s)]))
  /\ \A i \in 1..(Len(s) - 1) : ~(IsSpace(s[i]) /\ IsSpace(s[i + 1]))

\* C12: for every input, normalize_address returns the present components
\* among number, upper-cased name and canonical type joined by exactly one
\* space each, with no space at either end and never two spaces in a row.
C12_SingleSpaced ==
  call.fn = "normalize_address"
  => /\ SingleSpaced(call.normalized)
     /\ call.normalized =
          Join(NonEmpty(<< parse_address(call.address).street_number,
                           Upper(parse_address(call.address).street_name),
                           CanonicalType(Upper(parse_address(call.address).street_type)) >>))

\* addr1 names a numbered street by its word and addr2 the same street, with
\* the same number and type, by its numeral
IsWordNumeralPair(addr1, addr2) ==
  /\ Len(Split(addr1)) = 3
  /\ Len(Split(addr2)) = 3
  /\ Split(addr1)[1] = Split(addr2)[1]
  /\ Split(addr1)[3] = Split(addr2)[3]
  /\ \E k \in Positions :
       /\ Upper(Split(addr1)[2]) = OrdinalWords[k]
       /\ Upper(Split(addr2)[2]) = OrdinalNumeral(k)

\* C13: for every position k in 1..12, the word form and the numeral form of
\* the street name have distinct normalize_address keys, so addresses_match is
\* false for the pair, while normalize_address_for_lookup gives both the same
\* query string.
C13_NoOrdinalConversion ==
  (call.fn = "addresses_match" /\ IsWordNumeralPair(call.addr1, call.addr2))
  => /\ normalize_address(call.addr1) # normalize_address(call.addr2)
     /\ call.matches = FALSE
     /\ normalize_address_for_lookup(call.addr1) # <<>>
     /\ normalize_address_for_lookup(call.addr1) =
          normalize_address_for_lookup(call.addr2)

\* "1914 TWELFTH ST" and "1914 12th ST" have been compared and found different
C13_Witness ==
  /\ call.fn = "addresses_match"
  /\ call.addr1 = Join(<<s_1914, OrdinalWords[12], s_ST>>)
  /\ call.addr2 = Join(<<s_1914, <<"1", "2", "t", "h">>, s_ST>>)
  /\ call.matches = FALSE

---------------------------------------------------------------------------
(* Further properties of the lookup resolver (Spec) *)

\* the match carries the coordinates and the parcel id of the row
CarriesRow(match, row) ==
  /\ match.latitude = row.latitude
  /\ match.longitude = row.longitude
  /\ match.apn = row.APN

\* C14: geocode_from_lookup returns no match when no row of the table has the
\* query string as its address; otherwise it returns the latitude, longitude
\* and parcel id of the first such row in table order, never those of a later
\* duplicate.
C14_FirstMatchWins ==
  call.fn = "geocode_from_lookup"
  => IF call.query = <<>> \/ ~HasRow(lookup, call.query[1])
     THEN call.match = <<>>
     ELSE /\ call.match # <<>>
          /\ \E i \in DOMAIN lookup :
               /\ lookup[i].original_address = call.query[1]
               /\ \A j \in 1..(i - 1) : lookup[j].original_address # call.query[1]
               /\ CarriesRow(call.match[1], lookup[i])

\* the table lists "1914 5th St" twice with different values, and the values
\* of the earlier row have been returned
C14_Witness ==
  /\ call.fn = "geocode_from_lookup"
  /\ call.match # <<>>
  /\ \E i, j \in DOMAIN lookup :
       /\ i < j
       /\ lookup[i].original_address = call.query[1]
       /\ lookup[j].original_address = call.query[1]
       /\ lookup[i].latitude # lookup[j].latitude
       /\ lookup[i].APN # lookup[j].APN
       /\ CarriesRow(call.match[1], lookup[i])
       /\ ~CarriesRow(call.match[1], lookup[j])

\* one row has been appended to the table and the rows it held are as before
OneRowAppended(before, after) ==
  /\ Len(after) = Len(before) + 1
  /\ SubSeq(after, 1, Len(before)) = before

\* C15: geocode_from_lookup, geocode_dataframe, validate_coordinates and a
\* rejected add_manual_geocode leave the rows of the lookup table unchanged;
\* a successful add_manual_geocode appends exactly one row at the end and
\* leaves every existing row and their order unchanged; nothing else changes
\* the table.
C15_OnlyManualEntryWrites ==
  [][/\ call'.fn \in {"geocode_from_lookup", "validate_coordinates"}
          => lookup' = lookup
     /\ (call'.fn = "geocode_dataframe" /\ call' # call) => lookup' = lookup
     /\ (call'.fn = "add_manual_geocode" /\ call'.result = FALSE)
          => lookup' = lookup
     /\ (call'.fn = "add_manual_geocode" /\ call'.result = TRUE)
          => OneRowAppended(lookup, lookup')
     /\ lookup' # lookup
          => /\ OneRowAppended(lookup, lookup')
             /\ InBerkeleyBox(lookup'[Len(lookup')].latitude,
                              lookup'[Len(lookup')].longitude)
             /\ \/ call'.fn = "add_manual_geocode" /\ call'.result = TRUE
                \/ InProgress /\ call' = call]_vars

\* an entry has been appended to a table that held a row
C15_Witness ==
  /\ call.fn = "add_manual_geocode"
  /\ call.result = TRUE
  /\ Len(lookup) = 2
  /\ lookup[2].latitude = call.latitude
  /\ lookup[1].original_address = Join(<<s_2700, s_Shattuck, <<"A", "v">> >>)

---------------------------------------------------------------------------
(* Further properties of the parser (SpecText) *)

---------------------------------------------------------------------------
(* Properties of the batch run (Spec) *)

\* C17: within one geocode_dataframe run every row is resolved against the
\* table contents the run started on: each row handled so far is as the loop
\* body leaves it on that table, also when add_manual_geocode has executed
\* while the batch was in progress.
C17_BatchSeesOneTable ==
  call.fn = "geocode_dataframe"
  => \A i \in 1..(call.idx - 1) :
       call.df[i] =
         geocode_dataframe_row(call.given[i], call.apn_column, call.started_on).row

\* the rows handled so far that had no latitude and have one now
FilledRows ==
  { i \in 1..(call.idx - 1) :
      call.given[i].latitude = <<>> /\ call.df[i].latitude # <<>> }

\* the rows before idx have been handled and the rows from idx on are as given
RowsHandled ==
  call.fn = "geocode_dataframe"
  => /\ call.idx \in 1..(Len(call.given) + 1)
     /\ Len(call.df) = Len(call.given)
     /\ \A i \in 1..(call.idx - 1) :
          IF call.given[i].latitude # <<>>
          THEN call.df[i] = call.given[i] /\ i \notin call.looked_up
          ELSE /\ i \in call.looked_up
               /\ call.df[i].address = call.given[i].address
               /\ call.df[i].latitude = <<>> => call.df[i] = call.given[i]
     /\ \A i \in call.idx..Len(call.df) : call.df[i] = call.given[i]
     /\ call.geocoded_count = Cardinality(FilledRows)

\* C18: geocode_dataframe handles every row and never halts on a miss: a row
\* without a match keeps its empty coordinates and the loop goes on to the
\* next row; a row that already has a latitude is left unchanged and is not
\* looked up; geocoded_count equals the number of rows whose coordinates were
\* filled in during the run; and every run that has begun reaches its return.
C18_BatchContinuesPastMisses ==
  /\ []RowsHandled
  /\ (call.fn = "geocode_dataframe")
       ~> (call.fn = "geocode_dataframe" /\ call.idx = Len(call.df) + 1)

\* a batch has returned with its first row missed, its second row filled in
\* and a count of one
C18_Witness ==
  /\ call.fn = "geocode_dataframe"
  /\ Len(call.df) = 2
  /\ call.idx = 3
  /\ call.df[1].latitude = <<>>
  /\ call.given[2].latitude = <<>>
  /\ call.df[2].latitude # <<>>
  /\ call.geocoded_count = 1

---------------------------------------------------------------------------
(* Construction progress from completed inspections *)

INSPECTION_SEQUENCE ==
  << <<"F", "o", "u", "n", "d", "a", "t", "i", "o", "n">>,
     <<"F", "r", "a", "m", "i", "n", "g", "/", "R", "o", "u", "g", "h">>,
     <<"E", "l", "e", "c", "t", "r", "i", "c", "a", "l", " ", "R", "o", "u", "g", "h">>,
     <<"P", "l", "u", "m", "b", "i", "n", "g", " ", "R", "o", "u", "g", "h">>,
     <<"M", "e", "c", "h", "a", "n", "i", "c", "a", "l", " ", "R", "o", "u", "g", "h">>,
     <<"I", "n", "s", "u", "l", "a", "t", "i", "o", "n">>,
     <<"D", "r", "y", "w", "a", "l", "l">>,
     <<"E", "l", "e", "c", "t", "r", "i", "c", "a", "l", " ", "F", "i", "n", "a", "l">>,
     <<"P", "l", "u", "m", "b", "i", "n", "g", " ", "F", "i", "n", "a", "l">>,
     <<"M", "e", "c", "h", "a", "n", "i", "c", "a", "l", " ", "F", "i", "n", "a", "l">>,
     <<"F", "i", "n", "a", "l">> >>

\* needle in hay, for strings
Contains(hay, needle) ==
  \E i \in 0..(Len(hay) - Len(needle)) :
    SubSeq(hay, i + 1, i + Len(needle)) = needle

\* round(100 * n / total, 1), in tenths of a percent
RoundedPercent(n, total) == (2000 * n + total) \div (2 * total)

\* The value returned, in tenths of a percent.  hits holds i + 1 for every
\* index i the loops assign to highest_idx.
calculate_progress_percent(inspections_completed) ==
  LET hits == { i \in DOMAIN INSPECTION_SEQUENCE :
                  \E j \in DOMAIN inspections_completed :
                    Contains(Upper(inspections_completed[j]),
                             Upper(INSPECTION_SEQUENCE[i])) }
  IN  IF hits = {} THEN 0
      ELSE RoundedPercent(Max(hits), Len(INSPECTION_SEQUENCE))

\* an inspection type the sequence does not list
s_Roofing == <<"R", "o", "o", "f", "i", "n", "g">>

\* the first k entries of the sequence, k in 0..11, and lists of at most
\* MaxInspections entries in any order, listed or not
InspectionLists ==
  { SubSeq(INSPECTION_SEQUENCE, 1, k) : k \in 0..Len(INSPECTION_SEQUENCE) }
    \cup SeqsUpTo(Range(INSPECTION_SEQUENCE) \cup {s_Roofing, Lower(INSPECTION_SEQUENCE[1])},
                  MaxInspections)

CalculateProgressPercent ==
  /\ Idle
  /\ \E inspections_completed \in InspectionLists :
       call' = [fn |-> "calculate_progress_percent",
                inspections_completed |-> inspections_completed,
                percent |-> calculate_progress_percent(inspections_completed)]
  /\ UNCHANGED lookup

NextProgress ==
  \/ CalculateProgressPercent
  \/ Return

SpecProgress == InitText /\ [][NextProgress]_vars

\* C19: when inspections_completed is exactly the first k entries of
\* INSPECTION_SEQUENCE, for every k in 0..11, calculate_progress_percent
\* returns 100*k/11 rounded to one decimal (k = 2 gives 18.2), and it returns
\* 100 only when the 'Final' inspection itself is in the list.
C19_ShareOfSequence ==
  call.fn = "calculate_progress_percent"
  => /\ \A k \in 0..Len(INSPECTION_SEQUENCE) :
          call.inspections_completed = SubSeq(INSPECTION_SEQUENCE, 1, k)
          => /\ call.percent = RoundedPercent(k, Len(INSPECTION_SEQUENCE))
             /\ k = 2 => call.percent = 182
     /\ call.percent = 1000
          => \E j \in DOMAIN call.inspections_completed :
               Upper(call.inspections_completed[j]) = Upper(Last(INSPECTION_SEQUENCE))

\* geocode_from_lookup(address) run on the table as it stands
Found(address, table) == geocode_from_lookup(address, table).result

\* C20: after add_manual_geocode(a, lat, lon) succeeds for any raw address a,
\* of three tokens, fewer or more, a following geocode_from_lookup(a) on the
\* resulting table returns a match; and when the table held no earlier row
\* with the same normalized address, the match carries exactly the entered
\* latitude and longitude.
C20_ManualEntriesFindable ==
  [][ (call'.fn = "add_manual_geocode" /\ call'.result)
      => /\ Found(call'.address, lookup') # <<>>
         /\ ~HasRow(lookup, Last(lookup').original_address)
              => /\ Found(call'.address, lookup')[1].latitude = call'.latitude
                 /\ Found(call'.address, lookup')[1].longitude = call'.longitude ]_vars

---------------------------------------------------------------------------
(* Two callers of add_manual_geocode at once.  The function takes no lock,
   so the steps of the two calls interleave: the bounds test (line 178), the
   read of the file (line 182) and the write of the file (line 195).  Each
   read and each write is taken as one step. *)

Callers == {1, 2}

\* an in-bounds entry for each of two addresses, and one out of bounds
ConcurrentInputs ==
  { <<Join(<<s_1914, Title(OrdinalWords[5]), s_St>>), 3784, -12232, <<s_B>>>>,
    <<Join(<<s_2700, s_Shattuck, s_Ave>>), 3787, -12227, <<>>>>,
    <<Join(<<s_2700, s_Shattuck, s_Ave>>), 4000, -12227, <<>>>> }

\* a caller about to run line 178; df_lookup is its local dataframe
Caller(m) ==
  [pc |-> "validate", address |-> m[1], latitude |-> m[2], longitude |-> m[3],
   apn |-> m[4], df_lookup |-> <<>>, returned |-> <<>>]

Concurrent == call.fn = "add_manual_geocode_concurrently"

AddManualGeocodeConcurrently ==
  /\ Idle
  /\ Len(lookup) < MaxRows
  /\ \E m1 \in ConcurrentInputs, m2 \in ConcurrentInputs :
       call' = [fn |-> "add_manual_geocode_concurrently",
                callers |-> <<Caller(m1), Caller(m2)>>,
                started_on |-> lookup]
  /\ UNCHANGED lookup

\* lines 178-180
CallerValidates ==
  /\ Concurrent
  /\ \E p \in Callers :
       LET c == call.callers[p]
       IN  /\ c.pc = "validate"
           /\ call' = [call EXCEPT !.callers[p] =
                         IF validate_coordinates(c.latitude, c.longitude, "Berkeley")
                         THEN [c EXCEPT !.pc = "read"]
                         ELSE [c EXCEPT !.pc = "returned", !.returned = <<FALSE>>]]
  /\ UNCHANGED lookup

\* lines 182-194: read the file, then append the new entry to the local copy
CallerReads ==
  /\ Concurrent
  /\ \E p \in Callers :
       LET c == call.callers[p]
       IN  /\ c.pc = "read"
           /\ call' = [call EXCEPT !.callers[p] =
                         [c EXCEPT !.pc = "write",
                                   !.df_lookup =
                                      Append(lookup, NewEntry(c.address, c.latitude,
                                                              c.longitude, c.apn))]]
  /\ UNCHANGED lookup

\* lines 195-198: the local copy replaces the file
CallerWrites ==
  /\ Concurrent
  /\ \E p \in Callers :
       LET c == call.callers[p]
       IN  /\ c.pc = "write"
           /\ lookup' = c.df_lookup
           /\ call' = [call EXCEPT !.callers[p] =
                         [c EXCEPT !.pc = "returned", !.returned = <<TRUE>>]]

BothReturned ==
  /\ Concurrent
  /\ \A p \in Callers : call.callers[p].pc = "returned"

ReturnBoth ==
  /\ BothReturned
  /\ call' = NoCall
  /\ UNCHANGED lookup

NextConcurrent ==
  \/ AddManualGeocodeConcurrently
  \/ CallerValidates
  \/ CallerReads
  \/ CallerWrites
  \/ ReturnBoth

SpecConcurrent == Init /\ [][NextConcurrent]_vars

\* C21: for any interleaving of two add_manual_geocode calls with in-bounds
\* coordinates running at once on the same table, once both have returned
\* success the table holds both new rows: its row count has grown by
\* exactly 2.
C21_NoLostUpdate ==
  (BothReturned /\ \A p \in Callers : call.callers[p].returned = <<TRUE>>)
  => /\ Len(lookup) = Len(call.started_on) + 2
     /\ \A p \in Callers :
          \E i \in (Len(call.started_on) + 1)..Len(lookup) :
            lookup[i] = NewEntry(call.callers[p].address, call.callers[p].latitude,
                                 call.callers[p].longitude, call.callers[p].apn)

\* x with its letters changed to upper case, to lower case, and to title case
Recasings(x) == { Upper(x), Lower(x), Title(x) }

\* C22: the equality key is case-insensitive: for every address x,
\* normalize_address(x) equals normalize_address of x with its letter case
\* changed (in the number's trailing letter, the name, the type or the unit
\* marker), so addresses_match(x, upper(x)) and addresses_match(x, lower(x))
\* are true.
C22_KeyIgnoresCase ==
  call.fn = "normalize_address"
  => /\ \A y \in Recasings(call.address) : normalize_address(y) = call.normalized
     /\ addresses_match(call.address, Upper(call.address))
     /\ addresses_match(call.address, Lower(call.address))
=============================================================================
